---- MODULE Spec2Model ----
(***************************************************************************)
(* konfig.paths: the Path value type (validation, equality, hashing,       *)
(* canonical formatting) and the lark grammar / PathTransformer that       *)
(* parses a path string back into a Path.                                  *)
(*                                                                         *)
(* Python values are records [k |-> <type tag>, v |-> <payload>]:          *)
(*   int      v: the integer            bool    v: TRUE / FALSE            *)
(*   float    v: <<m, e>>, the exact decimal m * 10^e, normalised          *)
(*   inf      v: 1 / -1 (float("inf"), float("-inf"))                      *)
(*   complex  v: <<re, im>>, two decimals                                  *)
(*   none     v: 0                      str     v: sequence of characters  *)
(*   slice    v: <<start, stop, step>>  tuple   v: sequence of values      *)
(*   list, bytes: values a Path must refuse                                *)
(* A text (a Python str) is a sequence of one-character strings.           *)
(***************************************************************************)
EXTENDS Integers, Sequences, FiniteSets, TLC

VARIABLES
  heap,        \* the Path objects built so far: heap[i].parts is the slot of object i
  stack,       \* the interpreter's call stack of the functools.cache wrappers in flight
  hash_cache,  \* the dict behind functools.cache(Path.__hash__)
  repr_cache,  \* the dict behind functools.cache(Path.__repr__)
  result,      \* the outcome of the last operation that finished
  input        \* the arguments drawn for the operation under test

vars == <<heap, stack, hash_cache, repr_cache, result, input>>

\* ---------------------------------------------------------------- bounds
\* Longest key sequence handed to Path(...).
MaxLen == 2

\* ---------------------------------------------------------------- values
VInt(n) == [k |-> "int", v |-> n]
VBool(b) == [k |-> "bool", v |-> b]
VFloat(m, e) == [k |-> "float", v |-> <<m, e>>]
VInf(s) == [k |-> "inf", v |-> s]
VComplex(re, im) == [k |-> "complex", v |-> <<re, im>>]
VNone == [k |-> "none", v |-> 0]
VStr(s) == [k |-> "str", v |-> s]
VSlice(a, b, c) == [k |-> "slice", v |-> <<a, b, c>>]
VTuple(s) == [k |-> "tuple", v |-> s]
VList(s) == [k |-> "list", v |-> s]
VBytes(s) == [k |-> "bytes", v |-> s]
\* A reference to the Path object at heap[i].
VPath(i) == [k |-> "Path", v |-> i]

\* Sequences over S of length at most n.
SeqsUpTo(S, n) == UNION {[1..m -> S] : m \in 0..n}

\* The decimal m * 10^e with the trailing zeros of m moved into e (0 is <<0, 0>>).
RECURSIVE Norm(_, _)
Norm(m, e) ==
  IF m = 0 THEN <<0, 0>>
  ELSE IF m % 10 = 0 THEN Norm(m \div 10, e + 1)
  ELSE <<m, e>>

\* ------------------------------------------------------------- Path.__init__
\* A validator that does not look inside tuples: any tuple passes.
_is_valid_part_shallow(part) ==
  \/ part.k \in {"int", "float", "inf", "complex", "slice", "str", "bool"}
  \/ part.k = "none"
  \/ part.k = "tuple"

\* Path._is_valid_part: isinstance(part, (int, float, complex, slice, str, bool)),
\* part is None, or a tuple whose every element is valid.
RECURSIVE _is_valid_part(_)
_is_valid_part(part) ==
  \/ part.k \in {"int", "float", "inf", "complex", "slice", "str", "bool"}
  \/ part.k = "none"
  \/ /\ part.k = "tuple"
     /\ \A i \in 1..Len(part.v) : _is_valid_part(part.v[i])

\* Path.__init__(*parts): the argument tuple itself is what is validated.
\* The outcome: the new heap and the result of the call.
Path__init__(h, parts) ==
  IF ~_is_valid_part(VTuple(parts))
  THEN [heap |-> h, kind |-> "ValueError", val |-> VNone]
  ELSE [heap |-> Append(h, [parts |-> parts]), kind |-> "value", val |-> VPath(Len(h) + 1)]

\* ------------------------------------------------------------- Path.__eq__
\* The value of a number as a complex decimal <<re, im>> (bool is an int).
NumVal(x) ==
  CASE x.k = "int" -> <<Norm(x.v, 0), <<0, 0>>>>
    [] x.k = "bool" -> <<(IF x.v THEN <<1, 0>> ELSE <<0, 0>>), <<0, 0>>>>
    [] x.k = "float" -> <<Norm(x.v[1], x.v[2]), <<0, 0>>>>
    [] x.k = "complex" -> <<Norm(x.v[1][1], x.v[1][2]), Norm(x.v[2][1], x.v[2][2])>>

IsNum(x) == x.k \in {"int", "bool", "float", "complex"}

\* Python's == on the values a Path can hold: numbers compare by value across
\* int, bool, float and complex; slices compare as their (start, stop, step)
\* tuples; tuples compare element by element (tuplerichcompare: the first index
\* where the items differ, then the lengths).
RECURSIVE PyEq(_, _)
PyEq(a, b) ==
  IF IsNum(a) /\ IsNum(b) THEN NumVal(a) = NumVal(b)
  ELSE IF a.k # b.k THEN FALSE
  ELSE IF a.k \in {"tuple", "slice", "list"} THEN
    LET n == IF Len(a.v) < Len(b.v) THEN Len(a.v) ELSE Len(b.v)
        diff == {i \in 1..n : ~PyEq(a.v[i], b.v[i])}
    IN  IF diff = {} THEN Len(a.v) = Len(b.v) ELSE FALSE
  ELSE a.v = b.v

\* An __eq__ that compares object identity only.
Path__eq__identity(h, self, other) ==
  other.k = "Path" /\ other.v = self

\* Path.__eq__(self, other): isinstance(other, Path) and self.parts == other.parts.
Path__eq__(h, self, other) ==
  IF other.k = "Path"
  THEN PyEq(VTuple(h[self].parts), VTuple(h[other.v].parts))
  ELSE FALSE

\* Path.__len__ and Path.__getitem__ with an integer index (negative from the end).
Path__len__(h, self) == Len(h[self].parts)

Path__getitem__(h, self, key) ==
  LET n == Len(h[self].parts)
      i == IF key < 0 THEN key + n ELSE key
  IN  IF i < 0 \/ i >= n
      THEN [kind |-> "IndexError", val |-> VNone]
      ELSE [kind |-> "value", val |-> h[self].parts[i + 1]]

\* ------------------------------------------------------------- texts
Digits == {"0", "1", "2", "3", "4", "5", "6", "7", "8", "9"}
LowerLetters ==
  {"a", "b", "c", "d", "e", "f", "g", "h", "i", "j", "k", "l", "m",
   "n", "o", "p", "q", "r", "s", "t", "u", "v", "w", "x", "y", "z"}
UpperLetters ==
  {"A", "B", "C", "D", "E", "F", "G", "H", "I", "J", "K", "L", "M",
   "N", "O", "P", "Q", "R", "S", "T", "U", "V", "W", "X", "Y", "Z"}
\* The ASCII part of [\p{Lu}\p{Ll}\p{Lt}\p{Lm}\p{Lo}\p{Nl}_].
IdStartChars == LowerLetters \cup UpperLetters \cup {"_"}
BackSlash == "\\"
Quote == "'"
DQuote == "\""

DigitText == <<"0", "1", "2", "3", "4", "5", "6", "7", "8", "9">>

\* The decimal digits of n >= 0.
RECURSIVE NatText(_)
NatText(n) ==
  IF n < 10 THEN <<DigitText[n + 1]>> ELSE NatText(n \div 10) \o <<DigitText[(n % 10) + 1]>>

\* str(n) / repr(n) of an int.
IntText(n) == IF n < 0 THEN <<"-">> \o NatText(-n) ELSE NatText(n)

\* s repeated n times; the concatenation of a sequence of texts; str.join.
RECURSIVE Repeat(_, _)
Repeat(s, n) == IF n <= 0 THEN <<>> ELSE s \o Repeat(s, n - 1)

RECURSIVE Concat(_)
Concat(ts) == IF ts = <<>> THEN <<>> ELSE Head(ts) \o Concat(Tail(ts))

RECURSIVE Join(_, _)
Join(sep, ts) ==
  IF ts = <<>> THEN <<>>
  ELSE IF Len(ts) = 1 THEN ts[1]
  ELSE ts[1] \o sep \o Join(sep, Tail(ts))

\* text[from .. to], empty when from > to.
Sub(text, from, to) == IF from > to THEN <<>> ELSE SubSeq(text, from, to)

\* str.isidentifier() on ASCII text.
isidentifier(s) ==
  /\ Len(s) > 0
  /\ s[1] \in IdStartChars
  /\ \A i \in 1..Len(s) : s[i] \in IdStartChars \cup Digits

\* ------------------------------------------------------------- repr of a key
\* float_repr_style "short" for the decimal m * 10^e (m # 0, normalised): fixed
\* notation while -4 < decpt <= 16, else d.ddde+XX; dot0 adds ".0" to a whole
\* number (repr of a float does, the parts of a complex do not).
FloatText(m, e, dot0) ==
  LET neg == m < 0
      ds == NatText(IF neg THEN -m ELSE m)
      n == Len(ds)
      decpt == n + e
      ex == decpt - 1
      body ==
        IF m = 0 THEN <<"0">> \o (IF dot0 THEN <<".", "0">> ELSE <<>>)
        ELSE IF decpt > -4 /\ decpt <= 16 THEN
          IF decpt <= 0 THEN <<"0", ".">> \o Repeat(<<"0">>, -decpt) \o ds
          ELSE IF decpt >= n THEN
            ds \o Repeat(<<"0">>, decpt - n) \o (IF dot0 THEN <<".", "0">> ELSE <<>>)
          ELSE Sub(ds, 1, decpt) \o <<".">> \o Sub(ds, decpt + 1, n)
        ELSE
          <<ds[1]>> \o (IF n > 1 THEN <<".">> \o Sub(ds, 2, n) ELSE <<>>)
          \o <<"e">> \o (IF ex < 0 THEN <<"-">> ELSE <<"+">>)
          \o (LET x == NatText(IF ex < 0 THEN -ex ELSE ex)
              IN  IF Len(x) < 2 THEN <<"0">> \o x ELSE x)
  IN  (IF neg THEN <<"-">> ELSE <<>>) \o body

\* repr of a str: single quotes unless the text holds ' and no "; backslash and
\* the chosen quote are escaped.
StrRepr(s) ==
  LET hasQ == \E i \in 1..Len(s) : s[i] = Quote
      hasD == \E i \in 1..Len(s) : s[i] = DQuote
      q == IF hasQ /\ ~hasD THEN DQuote ELSE Quote
      esc(c) == IF c = BackSlash \/ c = q THEN <<BackSlash, c>> ELSE <<c>>
  IN  <<q>> \o Concat([i \in 1..Len(s) |-> esc(s[i])]) \o <<q>>

\* Python's repr() of a value.
RECURSIVE PyRepr(_)
PyRepr(x) ==
  CASE x.k = "int" -> IntText(x.v)
    [] x.k = "bool" -> IF x.v THEN <<"T", "r", "u", "e">> ELSE <<"F", "a", "l", "s", "e">>
    [] x.k = "none" -> <<"N", "o", "n", "e">>
    [] x.k = "float" -> FloatText(x.v[1], x.v[2], TRUE)
    [] x.k = "inf" -> (IF x.v < 0 THEN <<"-">> ELSE <<>>) \o <<"i", "n", "f">>
    [] x.k = "complex" ->
         LET re == x.v[1]
             im == x.v[2]
             imt == FloatText(im[1], im[2], FALSE) \o <<"j">>
         IN  IF re[1] = 0 THEN imt
             ELSE <<"(">> \o FloatText(re[1], re[2], FALSE)
                  \o (IF im[1] >= 0 THEN <<"+">> ELSE <<>>) \o imt \o <<")">>
    [] x.k = "str" -> StrRepr(x.v)
    [] x.k = "slice" ->
         <<"s", "l", "i", "c", "e", "(">>
         \o Join(<<",", " ">>, [i \in 1..3 |-> PyRepr(x.v[i])]) \o <<")">>
    [] x.k = "tuple" ->
         <<"(">> \o Join(<<",", " ">>, [i \in 1..Len(x.v) |-> PyRepr(x.v[i])])
         \o (IF Len(x.v) = 1 THEN <<",">> ELSE <<>>) \o <<")">>
    [] x.k = "list" ->
         <<"[">> \o Join(<<",", " ">>, [i \in 1..Len(x.v) |-> PyRepr(x.v[i])]) \o <<"]">>

\* Python's str() of a value: a str is itself, anything else its repr.
PyStr(x) == IF x.k = "str" THEN x.v ELSE PyRepr(x)

\* ------------------------------------------------------------- formatter
\* Path.format_part
format_part(part) ==
  IF part.k = "str" /\ isidentifier(part.v) THEN <<".">> \o part.v
  ELSE IF part.k = "slice" THEN
    LET fm == <<part.v[1], VStr(<<":">>), part.v[2]>>
              \o (IF part.v[3] # VNone THEN <<VStr(<<":">>), part.v[3]>> ELSE <<>>)
        kept == SelectSeq(fm, LAMBDA f : f # VNone)
        slice_str == Concat([i \in 1..Len(kept) |-> PyStr(kept[i])])
    IN  <<"[">> \o slice_str \o <<"]">>
  ELSE <<"[">> \o PyRepr(part) \o <<"]">>

\* The body of Path.__repr__ (what the functools.cache wrapper calls on a miss).
Path__repr__body(parts) ==
  LET r == Concat([i \in 1..Len(parts) |-> format_part(parts[i])])
  IN  IF r # <<>> /\ r[1] = "." THEN Tail(r) ELSE r

\* ------------------------------------------------------------- lexer
\* A token of the grammar is one regular expression; lark's Earley parser with
\* its default dynamic lexer takes, at a position, the one match the regular
\* expression engine returns there. For the terminals below that match is the
\* longest prefix the expression matches in full.
AllDigits(s) == \A i \in 1..Len(s) : s[i] \in Digits
HexDigits == Digits \cup {"a", "b", "c", "d", "e", "f", "A", "B", "C", "D", "E", "F"}
Unsigned(s) == IF s # <<>> /\ s[1] = "-" THEN Tail(s) ELSE s
IsNeg(s) == s # <<>> /\ s[1] = "-"

\* DEC_NUMBER: /-?\d+/
IsDEC_NUMBER(s) == LET b == Unsigned(s) IN b # <<>> /\ AllDigits(b)

\* HEX_NUMBER: /-?0x[\da-f]*/i, OCT_NUMBER: /-?0o[0-7]*/i, BIN_NUMBER: /-?0b[0-1]*/i
IsRadix(s, marks, digs) ==
  LET b == Unsigned(s)
  IN  /\ Len(b) >= 2
      /\ b[1] = "0"
      /\ b[2] \in marks
      /\ \A i \in 3..Len(b) : b[i] \in digs
IsHEX_NUMBER(s) == IsRadix(s, {"x", "X"}, HexDigits)
IsOCT_NUMBER(s) == IsRadix(s, {"o", "O"}, {"0", "1", "2", "3", "4", "5", "6", "7"})
IsBIN_NUMBER(s) == IsRadix(s, {"b", "B"}, {"0", "1"})

\* The index of the exponent mark of a float text, 0 when it has none.
ExpAt(b) ==
  LET E == {i \in 1..Len(b) : b[i] \in {"e", "E"}}
  IN  IF E = {} THEN 0 ELSE CHOOSE i \in E : \A j \in E : i <= j
DotAt(b) ==
  LET D == {i \in 1..Len(b) : b[i] = "."}
  IN  IF D = {} THEN 0 ELSE CHOOSE i \in D : \A j \in D : i <= j

\* The parts of an unsigned float text b whose exponent mark is at x (0: none):
\* the mantissa, the digits of the exponent, whether the exponent is negative.
MantOf(b, x) == IF x = 0 THEN b ELSE Sub(b, 1, x - 1)
ExpDigitsOf(b, x) ==
  IF x = 0 THEN <<>>
  ELSE IF x < Len(b) /\ b[x + 1] \in {"-", "+"} THEN Sub(b, x + 2, Len(b))
  ELSE Sub(b, x + 1, Len(b))
ExpNegOf(b, x) == x # 0 /\ x < Len(b) /\ b[x + 1] = "-"
\* The digits of a mantissa before and after its dot, at d (0: none).
IntPartOf(mant, d) == IF d = 0 THEN mant ELSE Sub(mant, 1, d - 1)
FracPartOf(mant, d) == IF d = 0 THEN <<>> ELSE Sub(mant, d + 1, Len(mant))

\* (\d+\.\d*|\.\d+|\d+)
IsMantissa(mant, d) ==
  /\ AllDigits(IntPartOf(mant, d)) /\ AllDigits(FracPartOf(mant, d))
  /\ IF d = 0 THEN mant # <<>> ELSE Len(mant) > 1

IsUnsignedFloat(b, x) ==
  /\ IsMantissa(MantOf(b, x), DotAt(MantOf(b, x)))
  /\ x # 0 => ExpDigitsOf(b, x) # <<>> /\ AllDigits(ExpDigitsOf(b, x))

\* FLOAT_NUMBER: /-?((\d+\.\d*|\.\d+|\d+)(e[-+]?\d+)?|\d+(e[-+]?\d+))/i
IsFLOAT_NUMBER(s) == IsUnsignedFloat(Unsigned(s), ExpAt(Unsigned(s)))

\* IMAG_NUMBER: (DEC_NUMBER | FLOAT_NUMBER) "j"i
IsIMAG_NUMBER(s) ==
  /\ s # <<>>
  /\ s[Len(s)] \in {"j", "J"}
  /\ LET pre == Sub(s, 1, Len(s) - 1) IN IsDEC_NUMBER(pre) \/ IsFLOAT_NUMBER(pre)

\* The index of the sign between the two parts of "(" real sign imag ")": the
\* real part may carry a leading "-" and an exponent sign of its own.
ComplexSplits(s) ==
  {i \in 3..(Len(s) - 2) :
     /\ s[i] \in {"+", "-"}
     /\ LET re == Sub(s, 2, i - 1) IN IsFLOAT_NUMBER(re) \/ IsDEC_NUMBER(re)
     /\ IsIMAG_NUMBER(Sub(s, i + 1, Len(s) - 1))}

\* COMPLEX_NUMBER: IMAG_NUMBER | "(" (FLOAT_NUMBER | DEC_NUMBER) /[+-]/ IMAG_NUMBER ")"
IsCOMPLEX_NUMBER(s) ==
  \/ IsIMAG_NUMBER(s)
  \/ /\ Len(s) >= 5
     /\ s[1] = "(" /\ s[Len(s)] = ")"
     /\ ComplexSplits(s) # {}

\* The end (exclusive) of the longest prefix of text[i..] that P matches, 0 if none.
LongestMatch(P(_), text, i) ==
  LET E == {e \in i..Len(text) : P(Sub(text, i, e))}
  IN  IF E = {} THEN 0 ELSE (CHOOSE e \in E : \A f \in E : f <= e) + 1

\* The number of backslashes that end text[..q-1], counted back to position lo.
RECURSIVE BackslashRun(_, _, _)
BackslashRun(text, lo, q) ==
  IF q - 1 < lo \/ text[q - 1] # BackSlash THEN 0 ELSE 1 + BackslashRun(text, lo, q - 1)

\* string: /".*?(?<!\\)(\\\\)*?"/ | /'.*?(?<!\\)(\\\\)*?'/ at position i: the
\* index of the closing quote, which is the first quote of the opening kind that
\* an even number of backslashes precedes; 0 if there is none.
StringClose(text, i) ==
  IF i > Len(text) \/ text[i] \notin {Quote, DQuote} THEN 0
  ELSE LET Q == {q \in (i + 1)..Len(text) :
                   text[q] = text[i] /\ BackslashRun(text, i + 1, q) % 2 = 0}
       IN  IF Q = {} THEN 0 ELSE CHOOSE q \in Q : \A r \in Q : q <= r

\* The end (exclusive) of the run of characters of S that starts at i.
RECURSIVE RunEnd(_, _, _)
RunEnd(text, i, S) ==
  IF i <= Len(text) /\ text[i] \in S THEN RunEnd(text, i + 1, S) ELSE i

\* Whether the literal lit stands at position i.
LitAt(text, i, lit) ==
  /\ i + Len(lit) - 1 <= Len(text)
  /\ \A n \in 1..Len(lit) : text[i + n - 1] = lit[n]

\* ------------------------------------------------------------- conversions
\* An exception raised inside a transformer callback.
VError(name) == [k |-> "error", v |-> name]

HexText == <<"0", "1", "2", "3", "4", "5", "6", "7", "8", "9", "a", "b", "c", "d", "e", "f">>
HexUpper == <<"0", "1", "2", "3", "4", "5", "6", "7", "8", "9", "A", "B", "C", "D", "E", "F">>
DigitVal(c) == (CHOOSE n \in 1..16 : HexText[n] = c \/ HexUpper[n] = c) - 1

\* The value of a digit string in a base (0 for the empty string).
RECURSIVE DigitsVal(_, _)
DigitsVal(ds, base) ==
  IF ds = <<>> THEN 0
  ELSE DigitsVal(Sub(ds, 1, Len(ds) - 1), base) * base + DigitVal(ds[Len(ds)])

Signed(neg, n) == IF neg THEN -n ELSE n

\* The decimal <<m, e>> an unsigned float text (or digit string) denotes.
DecimalOfParts(ip, fp, exneg, exd) ==
  Norm(DigitsVal(ip \o fp, 10), Signed(exneg, DigitsVal(exd, 10)) - Len(fp))

DecimalOfMant(mant, d, exneg, exd) ==
  DecimalOfParts(IntPartOf(mant, d), FracPartOf(mant, d), exneg, exd)

DecimalAt(b, x) ==
  DecimalOfMant(MantOf(b, x), DotAt(MantOf(b, x)), ExpNegOf(b, x), ExpDigitsOf(b, x))

DecimalOf(b) == DecimalAt(b, ExpAt(b))

\* A decimal integer literal of Python: no leading zeros unless it is all zeros.
BadLeadingZeros(b) == Len(b) > 1 /\ b[1] = "0" /\ \E i \in 1..Len(b) : b[i] # "0"

\* ast.literal_eval on the text of a number token (a text that one of the number
\* terminals matched): the value, or the exception it raises.
SignedDecimal(neg, d) == <<Signed(neg, d[1]), d[2]>>
MaxOf(S) == CHOOSE n \in S : \A m \in S : m <= n

\* The literal of a radix: 0x, 0o or 0b alone is no literal.
eval_radix(neg, b, base) ==
  IF Len(b) = 2 THEN VError("SyntaxError")
  ELSE VInt(Signed(neg, DigitsVal(Sub(b, 3, Len(b)), base)))

\* "(" re sign im "j)": a BinOp whose left side is a number (a decimal integer has
\* no leading zeros) and whose right side must be a plain imaginary constant, so
\* a signed imaginary part is a malformed node.
eval_binop(re, minus, im) ==
  IF IsDEC_NUMBER(re) /\ BadLeadingZeros(Unsigned(re)) THEN VError("SyntaxError")
  ELSE IF IsNeg(im) THEN VError("ValueError")
  ELSE VComplex(SignedDecimal(IsNeg(re), DecimalOf(Unsigned(re))),
                SignedDecimal(minus, DecimalOf(im)))

eval_complex(s, i) == eval_binop(Sub(s, 2, i - 1), s[i] = "-", Sub(s, i + 1, Len(s) - 2))

literal_eval_unsigned(s, neg, b) ==
  IF IsDEC_NUMBER(s) THEN
    IF BadLeadingZeros(b) THEN VError("SyntaxError")
    ELSE VInt(Signed(neg, DigitsVal(b, 10)))
  ELSE IF IsHEX_NUMBER(s) THEN eval_radix(neg, b, 16)
  ELSE IF IsOCT_NUMBER(s) THEN eval_radix(neg, b, 8)
  ELSE IF IsBIN_NUMBER(s) THEN eval_radix(neg, b, 2)
  ELSE IF IsFLOAT_NUMBER(s) THEN
    [k |-> "float", v |-> SignedDecimal(neg, DecimalOf(b))]
  ELSE IF IsIMAG_NUMBER(s) THEN
    VComplex(<<0, 0>>, SignedDecimal(neg, DecimalOf(Sub(b, 1, Len(b) - 1))))
  ELSE eval_complex(s, MaxOf(ComplexSplits(s)))

literal_eval(s) == literal_eval_unsigned(s, IsNeg(s), Unsigned(s))

\* int(a) on the text of an integer token: base 10 only, leading zeros allowed.
int(a) ==
  IF IsDEC_NUMBER(a) THEN VInt(Signed(IsNeg(a), DigitsVal(Unsigned(a), 10)))
  ELSE VError("ValueError")

\* ------------------------------------------------------------- grammar
\* Every way a rule derives a prefix of text[i..] is one [end, val]: end is the
\* position after the prefix, val what PathTransformer makes of the subtree (the
\* exception, when a callback raises). lark transforms bottom-up, left to right,
\* so the first failing child decides.
FirstError(vals) ==
  LET E == {n \in 1..Len(vals) : vals[n].k = "error"}
  IN  IF E = {} THEN VNone ELSE vals[CHOOSE n \in E : \A m \in E : n <= m]

HasError(vals) == \E n \in 1..Len(vals) : vals[n].k = "error"

\* number: DEC_NUMBER | HEX_NUMBER | BIN_NUMBER | OCT_NUMBER | FLOAT_NUMBER
\*       | COMPLEX_NUMBER, with PathTransformer.number
NumberEnds(text, i) ==
  { LongestMatch(IsDEC_NUMBER, text, i), LongestMatch(IsHEX_NUMBER, text, i),
    LongestMatch(IsBIN_NUMBER, text, i), LongestMatch(IsOCT_NUMBER, text, i),
    LongestMatch(IsFLOAT_NUMBER, text, i), LongestMatch(IsCOMPLEX_NUMBER, text, i) } \ {0}

number(text, i) ==
  {[end |-> e, val |-> literal_eval(Sub(text, i, e - 1))] : e \in NumberEnds(text, i)}

\* ?integer: DEC_NUMBER | HEX_NUMBER | BIN_NUMBER | OCT_NUMBER, or nothing
\* ([integer]): the token text, <<>> when the bound is left out.
OptInteger(text, i) ==
  {[end |-> e, tok |-> Sub(text, i, e - 1)] :
     e \in ({ LongestMatch(IsDEC_NUMBER, text, i), LongestMatch(IsHEX_NUMBER, text, i),
              LongestMatch(IsBIN_NUMBER, text, i), LongestMatch(IsOCT_NUMBER, text, i) } \ {0})}
  \cup {[end |-> i, tok |-> <<>>]}

\* PathTransformer.slice_key: toks are the three bounds in order (<<>> for one
\* that is absent or left out); each present bound goes through int().
slice_key(toks) ==
  LET sargs == [n \in 1..3 |-> IF toks[n] = <<>> THEN VNone ELSE int(toks[n])]
  IN  IF HasError(sargs) THEN FirstError(sargs) ELSE VSlice(sargs[1], sargs[2], sargs[3])

\* !slice_key: [integer] ":" [integer] | [integer] ":" [integer] ":" [integer]
slice_rule(text, i) ==
  UNION { UNION {
    {[end |-> b.end, val |-> slice_key(<<a.tok, b.tok, <<>>>>)]}
    \cup (IF LitAt(text, b.end, <<":">>)
          THEN {[end |-> c.end, val |-> slice_key(<<a.tok, b.tok, c.tok>>)] :
                  c \in OptInteger(text, b.end + 1)}
          ELSE {})
    : b \in IF LitAt(text, a.end, <<":">>) THEN OptInteger(text, a.end + 1) ELSE {} }
    : a \in OptInteger(text, i) }

\* !boolean: "True" | "False" with PathTransformer.boolean; !none: "None"
boolean(text, i) ==
  (IF LitAt(text, i, <<"T", "r", "u", "e">>) THEN {[end |-> i + 4, val |-> VBool(TRUE)]} ELSE {})
  \cup (IF LitAt(text, i, <<"F", "a", "l", "s", "e">>)
        THEN {[end |-> i + 5, val |-> VBool(FALSE)]} ELSE {})

none(text, i) ==
  IF LitAt(text, i, <<"N", "o", "n", "e">>) THEN {[end |-> i + 4, val |-> VNone]} ELSE {}

\* string with PathTransformer.string: args[0][1:-1], the token without its quotes.
string(text, i) ==
  LET q == StringClose(text, i)
  IN  IF q = 0 THEN {} ELSE {[end |-> q + 1, val |-> VStr(Sub(text, i + 1, q - 1))]}

\* identifier: ID_START ID_CONTINUE* with PathTransformer.identifier, which
\* returns str(args[0]): the ID_START token, a run of letters and underscores.
\* ID_CONTINUE tokens (runs of letters, or runs of digits) follow to the end of
\* the word.
identifier(text, i) ==
  LET e == RunEnd(text, i, IdStartChars)
  IN  IF e = i THEN {}
      ELSE {[end |-> RunEnd(text, e, IdStartChars \cup Digits), val |-> VStr(Sub(text, i, e - 1))]}

\* PathTransformer.tuple_key
tuple_key_value(vals) == IF HasError(vals) THEN FirstError(vals) ELSE VTuple(vals)

RECURSIVE key(_, _)
RECURSIVE tuple_tail(_, _, _)

\* After "(" key and the keys in acc: ("," key)+ [","] ")".
tuple_tail(text, j, acc) ==
  (IF Len(acc) >= 2 /\ LitAt(text, j, <<")">>)
   THEN {[end |-> j + 1, val |-> tuple_key_value(acc)]} ELSE {})
  \cup (IF Len(acc) >= 2 /\ LitAt(text, j, <<",", ")">>)
        THEN {[end |-> j + 2, val |-> tuple_key_value(acc)]} ELSE {})
  \cup (IF LitAt(text, j, <<",">>)
        THEN UNION {tuple_tail(text, r.end, Append(acc, r.val)) : r \in key(text, j + 1)}
        ELSE {})

\* tuple_key: "()" | "(" key ",)" | "(" key ("," key)+ [","] ")"
tuple_key(text, i) ==
  (IF LitAt(text, i, <<"(", ")">>) THEN {[end |-> i + 2, val |-> VTuple(<<>>)]} ELSE {})
  \cup (IF LitAt(text, i, <<"(">>)
        THEN UNION {
               (IF LitAt(text, r.end, <<",", ")">>)
                THEN {[end |-> r.end + 2, val |-> tuple_key_value(<<r.val>>)]} ELSE {})
               \cup tuple_tail(text, r.end, <<r.val>>)
               : r \in key(text, i + 1)}
        ELSE {})

\* ?key: number | slice_key | boolean | none | string | tuple_key
key(text, i) ==
  IF i > Len(text) THEN {}
  ELSE number(text, i) \cup slice_rule(text, i) \cup boolean(text, i) \cup none(text, i)
       \cup string(text, i) \cup tuple_key(text, i)

\* "[" key "]" at position i.
item(text, i) ==
  IF LitAt(text, i, <<"[">>)
  THEN {r \in key(text, i + 1) : LitAt(text, r.end, <<"]">>)}
  ELSE {}

\* ("." identifier | "[" key "]")* from position j to the end of the text, after
\* the keys in acc: the key sequences of the complete derivations.
RECURSIVE segments(_, _, _)
segments(text, j, acc) ==
  IF j = Len(text) + 1 THEN {acc}
  ELSE UNION {segments(text, r.end + 1, Append(acc, r.val)) : r \in item(text, j)}
       \cup (IF LitAt(text, j, <<".">>)
             THEN UNION {segments(text, r.end, Append(acc, r.val)) : r \in identifier(text, j + 1)}
             ELSE {})

\* path: [(identifier | "[" key "]") ("." identifier | "[" key "]")*]
\* The key sequences PathTransformer.path can be handed for the text; none when
\* the grammar does not derive it.
path(text) ==
  IF text = <<>> THEN {<<>>}
  ELSE UNION {segments(text, r.end, <<r.val>>) : r \in identifier(text, 1)}
       \cup UNION {segments(text, r.end + 1, <<r.val>>) : r \in item(text, 1)}

\* Path.from_str(str_path): path_parser.parse, then PathTransformer().transform.
\* The outcomes: a parse error when the grammar derives nothing, the callback's
\* exception (lark wraps it in a VisitError), or the new Path.
transform(h, trees) ==
  IF trees = {} THEN {[heap |-> h, kind |-> "ParseError", val |-> VNone]}
  ELSE { IF HasError(args)
         THEN [heap |-> h, kind |-> "VisitError", val |-> FirstError(args)]
         ELSE Path__init__(h, args) : args \in trees }

from_str(h, str_path) == transform(h, path(str_path))

\* ------------------------------------------------------------- results
NoResult == [op |-> "none", self |-> 0, arg |-> VNone, kind |-> "none", val |-> VNone]
NoInput == [a |-> <<>>, b |-> <<>>, text |-> <<>>]

\* ------------------------------------------------------------- hash
\* The built-in hash() with the modulus 2^61 - 1 scaled down to 2^13 - 1: a
\* number hashes as its value reduced modulo the prime (so 1, True and 1.0 agree),
\* -1 is never returned, a tuple combines the hashes of its items, and a slice or
\* a list is unhashable (TypeError).
HashModulus == 2^13 - 1
HashInverseOfTen == (HashModulus * 9 + 1) \div 10

RECURSIVE PowMod(_, _)
PowMod(b, n) == IF n = 0 THEN 1 ELSE (b * PowMod(b, n - 1)) % HashModulus

DecimalHash(d) ==
  LET m == d[1]
      a == IF m < 0 THEN -m ELSE m
      r == IF d[2] >= 0 THEN ((a % HashModulus) * PowMod(10, d[2])) % HashModulus
           ELSE ((a % HashModulus) * PowMod(HashInverseOfTen, -d[2])) % HashModulus
      h == IF m < 0 THEN -r ELSE r
  IN  IF h = -1 THEN -2 ELSE h

CharCodes == <<"_", "0", "1", "2", "a", "b", "x", ".", "[", "]", ":", "(", ")", ",", "'", " ">>
CharCode(c) ==
  IF \E n \in 1..Len(CharCodes) : CharCodes[n] = c
  THEN CHOOSE n \in 1..Len(CharCodes) : CharCodes[n] = c
  ELSE 0

RECURSIVE StrHash(_)
StrHash(t) ==
  IF t = <<>> THEN 0
  ELSE (StrHash(Sub(t, 1, Len(t) - 1)) * 31 + CharCode(t[Len(t)]) + 1) % HashModulus

RECURSIVE PyHash(_)
PyHash(x) ==
  CASE IsNum(x) ->
         LET n == NumVal(x)
             h == DecimalHash(n[1]) + 1000003 * DecimalHash(n[2])
             w == h % HashModulus
         IN  VInt(IF n[2] = <<0, 0>> THEN DecimalHash(n[1]) ELSE w)
    [] x.k = "inf" -> VInt(314159 * x.v)
    [] x.k = "str" -> VInt(StrHash(x.v))
    [] x.k = "none" -> VInt(HashModulus - 1)
    [] x.k = "type" -> VInt(HashModulus - 2)
    [] x.k = "tuple" ->
         LET hs == [n \in 1..Len(x.v) |-> PyHash(x.v[n])]
             F[n \in 0..Len(hs)] ==
               IF n = 0 THEN 7 ELSE (F[n - 1] * 31 + hs[n].v + HashModulus) % HashModulus
         IN  IF HasError(hs) THEN FirstError(hs) ELSE VInt(F[Len(hs)])
    [] OTHER -> VError("TypeError")

\* The body of Path.__hash__: a slice among the parts is replaced by the tuple
\* (slice, start, stop, step); the tuple of the results is hashed.
Path__hash__body(parts) ==
  LET hashable_parts ==
        [n \in 1..Len(parts) |->
           IF parts[n].k # "slice" THEN parts[n]
           ELSE VTuple(<<[k |-> "type", v |-> "slice"]>> \o parts[n].v)]
  IN  PyHash(VTuple(hashable_parts))

\* ------------------------------------------------- construct, in isolation
\* Values offered to Path(...): admissible scalars, slices, tuples (nested), and
\* the inadmissible list and bytes, alone and inside tuples.
ConstructValues ==
  { VInt(1), VBool(TRUE), VFloat(15, -1), VComplex(<<0, 0>>, <<1, 0>>), VNone,
    VStr(<<"a">>), VSlice(VNone, VInt(1), VNone), VSlice(VList(<<>>), VNone, VNone),
    VTuple(<<>>), VTuple(<<VInt(1), VTuple(<<VStr(<<"a">>)>>)>>),
    VList(<<VInt(1)>>), VBytes(<<"a">>),
    VTuple(<<VList(<<>>)>>), VTuple(<<VInt(1), VTuple(<<VBytes(<<"a">>)>>)>>) }

InitConstruct ==
  /\ heap = <<>>
  /\ stack = <<>>
  /\ hash_cache = <<>>
  /\ repr_cache = <<>>
  /\ result = NoResult
  /\ \E a \in SeqsUpTo(ConstructValues, MaxLen) : input = [NoInput EXCEPT !.a = a]

\* p = Path(*input.a)
Construct ==
  /\ result.op = "none"
  /\ LET r == Path__init__(heap, input.a) IN
       /\ heap' = r.heap
       /\ result' = [NoResult EXCEPT !.op = "construct", !.kind = r.kind, !.val = r.val]
  /\ UNCHANGED <<stack, hash_cache, repr_cache, input>>

\* Reading the new Path back: len(p) and p[i].
ReadBack ==
  /\ result.op = "construct" /\ result.kind = "value"
  /\ \E i \in 0..Len(input.a) :
       LET g == Path__getitem__(heap, 1, i) IN
       result' = [NoResult EXCEPT !.op = "getitem", !.self = 1, !.arg = VInt(i),
                                  !.kind = g.kind, !.val = g.val]
  /\ UNCHANGED <<heap, stack, hash_cache, repr_cache, input>>

NextConstruct == Construct \/ ReadBack

SpecConstruct == InitConstruct /\ [][NextConstruct]_vars

\* The values reachable from x through tuple nesting (x included).
RECURSIVE SubValues(_)
SubValues(x) ==
  {x} \cup (IF x.k = "tuple" THEN UNION {SubValues(x.v[i]) : i \in 1..Len(x.v)} ELSE {})

AdmissibleKinds == {"int", "float", "inf", "complex", "bool", "str", "none", "slice", "tuple"}

HasInadmissible(keys) ==
  \E i \in 1..Len(keys) : \E x \in SubValues(keys[i]) : x.k \notin AdmissibleKinds

\* C2: Path(*keys) raises ValueError exactly when some key, at any tuple nesting
\* depth, is not an int, float, complex, bool, str, None, slice or tuple of such;
\* otherwise the new Path holds exactly the given keys in the given order, and
\* when it raises no Path exists.
C2_ConstructValidates ==
  result.op = "construct" =>
    /\ (result.kind = "ValueError") <=> HasInadmissible(input.a)
    /\ result.kind = "ValueError" => heap = <<>>
    /\ ~HasInadmissible(input.a) =>
         /\ result.kind = "value"
         /\ result.val = VPath(1)
         /\ heap = <<[parts |-> input.a]>>

\* C2's case: a key sequence whose only inadmissible value sits inside a nested
\* tuple was refused.
C2_Witness ==
  /\ result.op = "construct"
  /\ result.kind = "ValueError"
  /\ \A i \in 1..Len(input.a) : input.a[i].k \in AdmissibleKinds
  /\ Len(input.a) = MaxLen

\* ------------------------------------------------- equality, in isolation
\* Keys of the Paths compared: numbers equal across types, a string, a slice,
\* tuples that differ in length or in a nested element.
EqValues ==
  { VInt(1), VBool(TRUE), VStr(<<"a">>),
    VSlice(VNone, VInt(1), VNone), VTuple(<<VInt(1)>>), VTuple(<<VInt(1), VInt(2)>>) }

\* What a Path is compared with when the other side is not a Path.
NonPaths(h, self) == {VNone, VTuple(h[self].parts), VList(h[self].parts)}

InitEq ==
  /\ stack = <<>>
  /\ hash_cache = <<>>
  /\ repr_cache = <<>>
  /\ result = NoResult
  /\ \E a, b \in SeqsUpTo(EqValues, MaxLen) :
       /\ input = [NoInput EXCEPT !.a = a, !.b = b]
       /\ heap = Path__init__(Path__init__(<<>>, a).heap, b).heap

\* heap[self] == heap[other]
Equals ==
  /\ result.op = "none"
  /\ \E self, other \in 1..Len(heap) :
       result' = [NoResult EXCEPT !.op = "eq", !.self = self, !.arg = VPath(other),
                                  !.kind = "value",
                                  !.val = VBool(Path__eq__(heap, self, VPath(other)))]
  /\ UNCHANGED <<heap, stack, hash_cache, repr_cache, input>>

\* heap[self] == x for an x that is not a Path
EqualsOther ==
  /\ result.op = "none"
  /\ \E self \in 1..Len(heap) : \E x \in NonPaths(heap, self) :
       result' = [NoResult EXCEPT !.op = "eq", !.self = self, !.arg = x,
                                  !.kind = "value",
                                  !.val = VBool(Path__eq__(heap, self, x))]
  /\ UNCHANGED <<heap, stack, hash_cache, repr_cache, input>>

NextEq == Equals \/ EqualsOther

SpecEq == InitEq /\ [][NextEq]_vars

\* C3: p == x never raises; it is False for every x that is not a Path; for two
\* Paths it is True exactly when they have the same length and their keys are
\* pairwise equal by value, so Paths built from the same keys are equal.
C3_EqualsStructural ==
  result.op = "eq" =>
    /\ result.kind = "value" /\ result.val.k = "bool"
    /\ result.arg.k # "Path" => result.val.v = FALSE
    /\ result.arg.k = "Path" =>
         LET p == heap[result.self].parts
             q == heap[result.arg.v].parts
         IN  /\ result.val.v <=> /\ Len(p) = Len(q)
                                 /\ \A i \in 1..Len(p) : PyEq(p[i], q[i])
             /\ p = q => result.val.v

\* C3's case: two distinct Path objects of the full length whose keys are written
\* differently (1 and True) compared equal.
C3_Witness ==
  /\ result.op = "eq"
  /\ result.arg.k = "Path"
  /\ result.arg.v # result.self
  /\ result.val.v
  /\ Len(heap[result.self].parts) = MaxLen
  /\ heap[result.self].parts # heap[result.arg.v].parts

\* ------------------------------------------------- the Path object machine
\* Most Path objects alive at once, and the interpreter's recursion limit
\* (sys.getrecursionlimit(), 1000 by default) scaled down.
MaxPaths == 2
RecursionLimit == 4

\* Keys of the Paths of the machine, and a list, which Path refuses.
SpecKeys ==
  { VInt(1), VBool(TRUE), VStr(<<"a">>), VStr(<<"a", "1">>),
    VSlice(VNone, VInt(1), VNone), VTuple(<<VInt(1), VInt(2)>>), VList(<<>>) }

\* Texts handed to Path.from_str directly.
SpecTexts == { <<"a", ".", "b">>, <<"[", "0", "x", "]">>, <<"a", ".", ".", "b">> }

Init ==
  /\ heap = <<>>
  /\ stack = <<>>
  /\ hash_cache = <<>>
  /\ repr_cache = <<>>
  /\ result = NoResult
  /\ input = NoInput

Idle == stack = <<>>

\* p = Path(*keys)
New ==
  /\ Idle
  /\ Len(heap) < MaxPaths
  /\ \E keys \in SeqsUpTo(SpecKeys, MaxLen) :
       LET r == Path__init__(heap, keys) IN
         /\ heap' = r.heap
         /\ result' = [NoResult EXCEPT !.op = "construct", !.kind = r.kind, !.val = r.val]
  /\ UNCHANGED <<stack, hash_cache, repr_cache, input>>

\* len(p)
CallLen ==
  /\ Idle
  /\ \E self \in 1..Len(heap) :
       result' = [NoResult EXCEPT !.op = "len", !.self = self, !.kind = "value",
                                  !.val = VInt(Path__len__(heap, self))]
  /\ UNCHANGED <<heap, stack, hash_cache, repr_cache, input>>

\* p[key] for an integer key
CallGetItem ==
  /\ Idle
  /\ \E self \in 1..Len(heap) : \E idx \in (-MaxLen)..MaxLen :
       LET g == Path__getitem__(heap, self, idx) IN
       result' = [NoResult EXCEPT !.op = "getitem", !.self = self, !.arg = VInt(idx),
                                  !.kind = g.kind, !.val = g.val]
  /\ UNCHANGED <<heap, stack, hash_cache, repr_cache, input>>

\* p == q, and p == x for an x that is not a Path
CallEq ==
  /\ Idle
  /\ \E self \in 1..Len(heap) :
     \E other \in {VPath(j) : j \in 1..Len(heap)} \cup NonPaths(heap, self) :
       result' = [NoResult EXCEPT !.op = "eq", !.self = self, !.arg = other,
                                  !.kind = "value",
                                  !.val = VBool(Path__eq__(heap, self, other))]
  /\ UNCHANGED <<heap, stack, hash_cache, repr_cache, input>>

\* p.<name> = value. __slots__ = ("parts",) makes parts the one attribute of a
\* Path, and an ordinary writable one: the assignment rebinds it. Any other name
\* raises AttributeError.
SetAttr ==
  /\ Idle
  /\ \E self \in 1..Len(heap) : \E name \in {"parts", "keys"} :
     \E value \in SeqsUpTo(SpecKeys, 1) :
       IF name = "parts"
       THEN /\ heap' = [heap EXCEPT ![self].parts = value]
            /\ result' = [NoResult EXCEPT !.op = "setattr", !.self = self,
                                          !.arg = VTuple(value), !.kind = "value"]
       ELSE /\ heap' = heap
            /\ result' = [NoResult EXCEPT !.op = "setattr", !.self = self,
                                          !.arg = VTuple(value), !.kind = "AttributeError"]
  /\ UNCHANGED <<stack, hash_cache, repr_cache, input>>

\* Path.format_part(part), the static method, called directly.
CallFormatPart ==
  /\ Idle
  /\ \E part \in SpecKeys :
       result' = [NoResult EXCEPT !.op = "format_part", !.arg = part, !.kind = "value",
                                  !.val = VStr(format_part(part))]
  /\ UNCHANGED <<heap, stack, hash_cache, repr_cache, input>>

\* Path.from_str(text), on a given text or on the text the last call returned.
CallFromStr ==
  /\ Idle
  /\ Len(heap) < MaxPaths
  /\ \E text \in SpecTexts \cup (IF result.kind = "value" /\ result.val.k = "str"
                                 THEN {result.val.v} ELSE {}) :
     \E o \in from_str(heap, text) :
       /\ heap' = o.heap
       /\ result' = [NoResult EXCEPT !.op = "from_str", !.arg = VStr(text),
                                     !.kind = o.kind, !.val = o.val]
  /\ UNCHANGED <<stack, hash_cache, repr_cache, input>>

\* A frame of the functools.cache wrapper around fn, called on heap[self]: at pc
\* "key" it is hashing its cache key (self,), at pc "lookup" it holds that hash.
Frame(fn, self, op) == [fn |-> fn, self |-> self, pc |-> "key", h |-> 0, op |-> op]

\* hash(p), repr(p), and test_path_parsing's Path.from_str(repr(p)) == p: each
\* enters the wrapper that functools.cache put around the method. result holds
\* nothing while a call is in flight.
CallHash ==
  /\ Idle
  /\ \E self \in 1..Len(heap) : stack' = <<Frame("__hash__", self, "hash")>>
  /\ result' = NoResult
  /\ UNCHANGED <<heap, hash_cache, repr_cache, input>>

CallRepr ==
  /\ Idle
  /\ \E self \in 1..Len(heap) : stack' = <<Frame("__repr__", self, "repr")>>
  /\ result' = NoResult
  /\ UNCHANGED <<heap, hash_cache, repr_cache, input>>

CallRoundTrip ==
  /\ Idle
  /\ \E self \in 1..Len(heap) : stack' = <<Frame("__repr__", self, "roundtrip")>>
  /\ result' = NoResult
  /\ UNCHANGED <<heap, hash_cache, repr_cache, input>>

\* The entry of cache c whose key is the Path self with hash h: a dict finds a
\* key by its hash and then by identity or ==. 0 when there is none.
CacheFind(h, c, self, hv) ==
  LET E == {n \in 1..Len(c) :
              /\ c[n].h = hv
              /\ (c[n].obj = self \/ Path__eq__(h, c[n].obj, VPath(self)))}
  IN  IF E = {} THEN 0 ELSE CHOOSE n \in E : \A m \in E : n <= m

\* What the program does when its outermost call returns v. For the round trip,
\* v is repr(p): Path.from_str(v) is built and compared with p.
Finish(op, self, v) ==
  IF op = "roundtrip" THEN
    \E o \in from_str(heap, v.v) :
      /\ heap' = heap
      /\ result' = [NoResult EXCEPT
                      !.op = "roundtrip", !.self = self, !.arg = v, !.kind = o.kind,
                      !.val = IF o.kind = "value"
                              THEN VBool(Path__eq__(o.heap, self, o.val))
                              ELSE o.val]
  ELSE /\ heap' = heap
       /\ result' = [NoResult EXCEPT !.op = op, !.self = self, !.kind = "value", !.val = v]

\* The top frame returns v: to the program, or to the wrapper below it, which was
\* hashing its key (self,) and now holds hash((self,)).
Return(v) ==
  IF Len(stack) = 1 THEN
    /\ stack' = <<>>
    /\ Finish(stack[1].op, stack[1].self, v)
  ELSE
    LET n == Len(stack) - 1 IN
    /\ stack' = [Sub(stack, 1, n) EXCEPT ![n].pc = "lookup", ![n].h = PyHash(VTuple(<<v>>)).v]
    /\ heap' = heap
    /\ result' = result

\* An exception leaves every frame: the call the program made ends with it.
Raise(name) ==
  /\ stack' = <<>>
  /\ heap' = heap
  /\ result' = [NoResult EXCEPT !.op = stack[1].op, !.self = stack[1].self, !.kind = name]

\* One step of the wrapper on top of the stack (functools.cache is
\* lru_cache(maxsize=None)): make the key (self,) and hash it, which calls
\* hash(self), that is Path.__hash__, that is the wrapper around it; then look
\* the key up; on a miss call the method, store and return its result.
WrapperStep ==
  /\ ~Idle
  /\ LET f == stack[Len(stack)] IN
     IF f.pc = "key" THEN
       IF Len(stack) >= RecursionLimit
       THEN Raise("RecursionError") /\ UNCHANGED <<hash_cache, repr_cache>>
       ELSE /\ stack' = Append(stack, Frame("__hash__", f.self, f.op))
            /\ UNCHANGED <<heap, hash_cache, repr_cache, result>>
     ELSE
       LET c == IF f.fn = "__hash__" THEN hash_cache ELSE repr_cache
           n == CacheFind(heap, c, f.self, f.h)
           v == IF f.fn = "__hash__" THEN Path__hash__body(heap[f.self].parts)
                ELSE VStr(Path__repr__body(heap[f.self].parts))
       IN  IF n # 0 THEN Return(c[n].val) /\ UNCHANGED <<hash_cache, repr_cache>>
           ELSE IF v.k = "error" THEN Raise(v.v) /\ UNCHANGED <<hash_cache, repr_cache>>
           ELSE /\ Return(v)
                /\ LET e == [obj |-> f.self, h |-> f.h, val |-> v] IN
                   IF f.fn = "__hash__"
                   THEN hash_cache' = Append(hash_cache, e) /\ repr_cache' = repr_cache
                   ELSE repr_cache' = Append(repr_cache, e) /\ hash_cache' = hash_cache
  /\ UNCHANGED input

Next ==
  \/ New
  \/ CallLen
  \/ CallGetItem
  \/ CallEq
  \/ SetAttr
  \/ CallFormatPart
  \/ CallFromStr
  \/ CallHash
  \/ CallRepr
  \/ CallRoundTrip
  \/ WrapperStep

Spec == Init /\ [][Next]_vars

\* ------------------------------------------------- parsing, in isolation
\* Longest text made of the characters of ParseAlphabet.
MaxTextLen == 4

ParseAlphabet == {"a", "1", "0", "x", ".", "[", "]", ":", "(", ")", ",", "'"}

\* Integer literals of every radix of the grammar, and <<>> for a bound left out.
IntLiterals ==
  { <<"7">>, <<"-", "1">>, <<"1", "0">>, <<"0", "x", "1", "f">>, <<"0", "o", "1", "7">>,
    <<"0", "b", "1", "1">>, <<"-", "0", "x", "1">> }

\* integer? ":" integer? (":" integer?)? inside brackets.
SliceText(a, b, c, third) ==
  <<"[">> \o a \o <<":">> \o b \o (IF third THEN <<":">> \o c ELSE <<>>) \o <<"]">>

\* The other texts the parser is tried on.
MoreTexts ==
  { <<"a", "[", "1", ":", "2", ":", "3", ":", "4", "]">>,
    <<"[", "0", "x", "1", "f", "]">>,
    <<"[", "(", "1", ")", "]">>,
    <<"[", "(", "1", ",", ")", "]">>,
    <<"[", "(", "1", ",", "2", ")", "]">>,
    <<"[", "'", "a", "'", "]">>,
    <<"[", "1", ".", "5", "e", "3", "]">>,
    <<"[", "(", "1", "+", "2", "j", ")", "]">>,
    <<"[", "T", "r", "u", "e", "]">>,
    <<"[", "N", "o", "n", "e", "]">> }

InitParse ==
  /\ heap = <<>>
  /\ stack = <<>>
  /\ hash_cache = <<>>
  /\ repr_cache = <<>>
  /\ result = NoResult
  /\ \/ \E t \in SeqsUpTo(ParseAlphabet, MaxTextLen) \cup MoreTexts :
          input = [NoInput EXCEPT !.text = t]
     \/ \E a, b, c \in IntLiterals \cup {<<>>} : \E third \in BOOLEAN :
          /\ ~third => c = <<>>
          /\ input = [a |-> <<VStr(a), VStr(b), VStr(c)>>, b |-> <<VBool(third)>>,
                      text |-> SliceText(a, b, c, third)]

\* Path.from_str(input.text)
Parse ==
  /\ result.op = "none"
  /\ \E o \in from_str(heap, input.text) :
       /\ heap' = o.heap
       /\ result' = [NoResult EXCEPT !.op = "from_str", !.kind = o.kind, !.val = o.val]
  /\ UNCHANGED <<stack, hash_cache, repr_cache, input>>

NextParse == Parse

SpecParse == InitParse /\ [][NextParse]_vars

\* ------------------------------------------------------------- claims
\* C1: the round trip. Whenever Path.from_str(repr(p)) == p has been evaluated
\* for a constructed Path p, it returned without error and the answer was True.
C1_RoundTrip ==
  result.op = "roundtrip" => result.kind = "value" /\ result.val = VBool(TRUE)

\* C4: hash consistency. Whenever hash(p) has been evaluated it returned an
\* integer, and that integer is the hash of every Path equal to p.
C4_HashConsistent ==
  result.op = "hash" =>
    /\ result.kind = "value"
    /\ result.val.k = "int"
    /\ \A j \in 1..Len(heap) :
         Path__eq__(heap, result.self, VPath(j)) =>
           Path__hash__body(heap[j].parts) = result.val

\* C5: parse has two outcomes only. Path.from_str(text) returns a Path exactly
\* when the grammar derives the text and raises a parse error when it does not;
\* no other error escapes.
C5_ParseExactlyGrammar ==
  result.op = "from_str" =>
    /\ result.kind \in {"value", "ParseError"}
    /\ (result.kind = "value") <=> (path(input.text) # {})

\* The rendering C6 describes for one key: "." + name for an identifier string,
\* "[start:stop]" or "[start:stop:step]" with a None bound left out for a slice,
\* "[" + literal + "]" for anything else.
C6_KeyText(x) ==
  IF x.k = "str" /\ isidentifier(x.v) THEN <<".">> \o x.v
  ELSE IF x.k = "slice" THEN
    <<"[">> \o (IF x.v[1] = VNone THEN <<>> ELSE PyStr(x.v[1])) \o <<":">>
    \o (IF x.v[2] = VNone THEN <<>> ELSE PyStr(x.v[2]))
    \o (IF x.v[3] = VNone THEN <<>> ELSE <<":">> \o PyStr(x.v[3])) \o <<"]">>
  ELSE <<"[">> \o PyRepr(x) \o <<"]">>

C6_PathText(parts) ==
  LET t == Concat([n \in 1..Len(parts) |-> C6_KeyText(parts[n])])
  IN  IF Len(parts) > 0 /\ parts[1].k = "str" /\ isidentifier(parts[1].v) THEN Tail(t) ELSE t

\* C6: whenever repr(p) has been evaluated it returned the concatenation of the
\* renderings of p's keys, without the leading "." of a first dotted segment.
C6_ToString ==
  result.op = "repr" =>
    /\ result.kind = "value"
    /\ result.val = VStr(C6_PathText(heap[result.self].parts))

\* C7: immutability. No step of the program changes the keys of a Path that
\* exists.
C7_Immutable ==
  [][\A i \in 1..Len(heap) : heap'[i].parts = heap[i].parts]_vars

\* C8: memoization is not observable. Whenever repr(p) or hash(p) has been
\* evaluated, it returned what the method's own body computes from p's keys.
C8_CacheTransparent ==
  /\ result.op = "repr" =>
       result.kind = "value"
       /\ result.val = VStr(Path__repr__body(heap[result.self].parts))
  /\ result.op = "hash" =>
       result.kind = "value"
       /\ result.val = Path__hash__body(heap[result.self].parts)

\* The bound C9 expects for a literal: None when left out, else the integer the
\* literal denotes in its radix.
C9_Bound(lit) == IF lit.v = <<>> THEN VNone ELSE literal_eval(lit.v)

\* C9: slice parsing. For "[" integer? ":" integer? (":" integer?)? "]" with
\* integer literals of any radix, Path.from_str returns the Path of the one key
\* Slice(start, stop, step): each bound the value of its literal, None when left
\* out or when there is no third colon.
C9_SliceParsed ==
  (result.op = "from_str" /\ input.a # <<>>) =>
    /\ result.kind = "value"
    /\ heap[1].parts = <<VSlice(C9_Bound(input.a[1]), C9_Bound(input.a[2]), C9_Bound(input.a[3]))>>

\* C10: termination of the memoized operations. Every hash(p) and repr(p) that
\* has ended returned a value, and the wrapper around Path.__hash__ is never
\* active twice for the same Path.
C10_Terminates ==
  /\ result.op \in {"hash", "repr"} => result.kind = "value"
  /\ \A m, n \in 1..Len(stack) :
       (stack[m].fn = "__hash__" /\ stack[n].fn = "__hash__" /\ stack[m].self = stack[n].self)
         => m = n

====
